---- MODULE Spec2Model ----
(***************************************************************************)
(* Model of src/main.py: the interactive BTC/fiat converter.               *)
(*                                                                         *)
(* Python strings are sequences of one-character strings.  A Python float  *)
(* is a record [k, n, d]: k = "num" is the rational n/d in lowest terms    *)
(* with d > 0 (binary rounding error and the sign of zero are not          *)
(* modelled); k = "nan", "inf", "ninf" are the IEEE specials.  A raised    *)
(* exception is the same record shape with k the exception's class name.   *)
(***************************************************************************)
EXTENDS Integers, Sequences, FiniteSets, TLC

VARIABLES
    verbose,      \* args.verbose
    api_key,      \* os.getenv("CURRENCY_FREAKS_API_KEY"): "" when unset
    today,        \* date.today(), as <<year, month, day>>
    pc,           \* position of main
    buffer,       \* get_input's local buffer
    rate_type,    \* main's locals, "none" until assigned
    date_str,
    direction,
    currency,
    amount,
    current_rate,
    result,
    gpc,          \* position inside get_exchange_rate
    conns,        \* every HTTPSConnection created: "created", "open", "closed"
    requests,     \* endpoints passed to conn.request, in order
    response,     \* the response read by the call in progress (or the last one)
    ret,          \* value get_exchange_rate is about to return
    out,          \* lines printed by get_exchange_rate and by main's result block
    fmt_value,    \* format_number under test: the value, quantized to 8 decimals
    fmt_str,      \* format_number under test: the returned string
    fmt_done

vars == <<verbose, api_key, today, pc, buffer, rate_type, date_str, direction,
          currency, amount, current_rate, result, gpc, conns, requests,
          response, ret, out, fmt_value, fmt_str, fmt_done>>

-----------------------------------------------------------------------------
(* Characters and strings *)

DigitChars == {"0", "1", "2", "3", "4", "5", "6", "7", "8", "9"}

DigitVal(c) ==
    CASE c = "0" -> 0 [] c = "1" -> 1 [] c = "2" -> 2 [] c = "3" -> 3
      [] c = "4" -> 4 [] c = "5" -> 5 [] c = "6" -> 6 [] c = "7" -> 7
      [] c = "8" -> 8 [] c = "9" -> 9

DigitChar(v) ==
    CASE v = 0 -> "0" [] v = 1 -> "1" [] v = 2 -> "2" [] v = 3 -> "3"
      [] v = 4 -> "4" [] v = 5 -> "5" [] v = 6 -> "6" [] v = 7 -> "7"
      [] v = 8 -> "8" [] v = 9 -> "9"

\* str.lower() / str.upper() on the letters the model types
LowerChar(c) ==
    CASE c = "H" -> "h" [] c = "C" -> "c" [] c = "T" -> "t" [] c = "O" -> "o"
      [] c = "F" -> "f" [] c = "R" -> "r" [] c = "M" -> "m" [] c = "N" -> "n"
      [] c = "A" -> "a" [] c = "I" -> "i" [] c = "U" -> "u" [] c = "S" -> "s"
      [] c = "D" -> "d" [] c = "E" -> "e"
      [] OTHER -> c

UpperChar(c) ==
    CASE c = "h" -> "H" [] c = "c" -> "C" [] c = "t" -> "T" [] c = "o" -> "O"
      [] c = "f" -> "F" [] c = "r" -> "R" [] c = "m" -> "M" [] c = "n" -> "N"
      [] c = "a" -> "A" [] c = "i" -> "I" [] c = "u" -> "U" [] c = "s" -> "S"
      [] c = "d" -> "D" [] c = "e" -> "E"
      [] OTHER -> c

Lower(s) == [i \in 1..Len(s) |-> LowerChar(s[i])]
Upper(s) == [i \in 1..Len(s) |-> UpperChar(s[i])]

\* Python slice s[a:b] with 0 <= a
Slice(s, a, b) == SubSeq(s, a + 1, IF b > Len(s) THEN Len(s) ELSE b)

AllDigits(s) == \A i \in 1..Len(s) : s[i] \in DigitChars

RECURSIVE DigitsToNat(_)
DigitsToNat(s) ==
    IF s = <<>> THEN 0
    ELSE DigitsToNat(SubSeq(s, 1, Len(s) - 1)) * 10 + DigitVal(s[Len(s)])

RECURSIVE NatToDigits(_)
NatToDigits(v) ==
    IF v < 10 THEN <<DigitChar(v)>>
    ELSE Append(NatToDigits(v \div 10), DigitChar(v % 10))

RECURSIVE Pow10(_)
Pow10(k) == IF k = 0 THEN 1 ELSE 10 * Pow10(k - 1)

RECURSIVE ZeroPad(_, _)
ZeroPad(s, width) == IF Len(s) >= width THEN s ELSE ZeroPad(<<"0">> \o s, width)

\* sep.join(parts)
RECURSIVE Join(_, _)
Join(parts, sep) ==
    IF parts = <<>> THEN <<>>
    ELSE IF Len(parts) = 1 THEN parts[1]
    ELSE parts[1] \o sep \o Join(Tail(parts), sep)

\* s.split(sep) for a one-character separator
RECURSIVE Split(_, _)
Split(s, sep) ==
    IF \A i \in 1..Len(s) : s[i] # sep THEN <<s>>
    ELSE LET p == CHOOSE i \in 1..Len(s) :
                      s[i] = sep /\ \A j \in 1..(i - 1) : s[j] # sep
         IN  <<SubSeq(s, 1, p - 1)>> \o Split(SubSeq(s, p + 1, Len(s)), sep)

-----------------------------------------------------------------------------
(* Floats *)

Num(n, d) == [k |-> "num", n |-> n, d |-> d]
NaN       == [k |-> "nan", n |-> 0, d |-> 1]
PosInf    == [k |-> "inf", n |-> 0, d |-> 1]
NegInf    == [k |-> "ninf", n |-> 0, d |-> 1]
Raise(cls) == [k |-> cls, n |-> 0, d |-> 1]

IsFloat(x)  == x.k \in {"num", "nan", "inf", "ninf"}
IsRaised(x) == ~IsFloat(x)

Abs(x) == IF x < 0 THEN -x ELSE x

RECURSIVE Gcd(_, _)
Gcd(a, b) == IF b = 0 THEN a ELSE Gcd(b, a % b)

Ratio(n, d) ==
    LET g == Gcd(Abs(n), Abs(d))
        s == IF d < 0 THEN -1 ELSE 1
    IN  Num((s * n) \div g, (s * d) \div g)

Sign(x) ==
    CASE x.k = "inf" -> 1
      [] x.k = "ninf" -> -1
      [] x.k = "num" -> IF x.n > 0 THEN 1 ELSE IF x.n < 0 THEN -1 ELSE 0
      [] OTHER -> 0

\* a * b on floats: never raises
FMul(a, b) ==
    IF a.k = "nan" \/ b.k = "nan" THEN NaN
    ELSE IF a.k = "num" /\ b.k = "num" THEN Ratio(a.n * b.n, a.d * b.d)
    ELSE IF Sign(a) * Sign(b) = 0 THEN NaN
    ELSE IF Sign(a) * Sign(b) > 0 THEN PosInf ELSE NegInf

\* a / b on floats: ZeroDivisionError whenever b == 0.0
FDiv(a, b) ==
    IF b.k = "num" /\ b.n = 0 THEN Raise("ZeroDivisionError")
    ELSE IF a.k = "nan" \/ b.k = "nan" THEN NaN
    ELSE IF a.k = "num" /\ b.k = "num" THEN Ratio(a.n * b.d, a.d * b.n)
    ELSE IF a.k = "num" THEN Num(0, 1)
    ELSE IF b.k = "num" THEN (IF Sign(a) * Sign(b) > 0 THEN PosInf ELSE NegInf)
    ELSE NaN

\* float(s) for a string: [sign] digits [. digits] | [sign] nan | [sign] inf,
\* ValueError otherwise (exponents, underscores and blanks are not typed here)
ParseUnsigned(s) ==
    LET dots == {i \in 1..Len(s) : s[i] = "."}
    IN  IF Lower(s) = <<"n", "a", "n">> THEN NaN
        ELSE IF Lower(s) \in {<<"i", "n", "f">>,
                              <<"i", "n", "f", "i", "n", "i", "t", "y">>} THEN PosInf
        ELSE IF /\ \A i \in 1..Len(s) : s[i] \in DigitChars \cup {"."}
                /\ Cardinality(dots) <= 1
                /\ \E i \in 1..Len(s) : s[i] \in DigitChars
        THEN IF dots = {} THEN Num(DigitsToNat(s), 1)
             ELSE LET p  == CHOOSE i \in dots : TRUE
                      ip == SubSeq(s, 1, p - 1)
                      fp == SubSeq(s, p + 1, Len(s))
                  IN  Ratio(DigitsToNat(ip) * Pow10(Len(fp)) + DigitsToNat(fp),
                            Pow10(Len(fp)))
        ELSE Raise("ValueError")

FNeg(x) ==
    CASE x.k = "num" -> Num(-x.n, x.d)
      [] x.k = "inf" -> NegInf
      [] x.k = "ninf" -> PosInf
      [] OTHER -> x

FloatParse(s) ==
    IF s = <<>> THEN Raise("ValueError")
    ELSE IF s[1] = "-" THEN FNeg(ParseUnsigned(Tail(s)))
    ELSE IF s[1] = "+" THEN ParseUnsigned(Tail(s))
    ELSE ParseUnsigned(s)

-----------------------------------------------------------------------------
(* format_number and the other number formats *)

\* k decimal digits of rem/d by long division: <<digits as a number, remainder>>
RECURSIVE LongDiv(_, _, _)
LongDiv(rem, d, k) ==
    IF k = 0 THEN <<0, rem>>
    ELSE LET prev == LongDiv(rem, d, k - 1)
         IN  <<prev[1] * 10 + (prev[2] * 10) \div d, (prev[2] * 10) % d>>

\* |v| rounded half-even to `places` decimals: integer part and scaled fraction
Quantize(v, places) ==
    LET a  == Abs(v.n)
        ld == LongDiv(a % v.d, v.d, places)
        up == 2 * ld[2] > v.d \/ (2 * ld[2] = v.d /\ ld[1] % 2 = 1)
        fp == IF up THEN ld[1] + 1 ELSE ld[1]
    IN  IF fp = Pow10(places) THEN [ip |-> a \div v.d + 1, fp |-> 0]
        ELSE [ip |-> a \div v.d, fp |-> fp]

\* the digits of a quantized value: integer part, ".", zero-padded fraction
RenderFixed(neg, q, places) ==
    (IF neg THEN <<"-">> ELSE <<>>)
        \o NatToDigits(q.ip) \o <<".">> \o ZeroPad(NatToDigits(q.fp), places)

\* f"{value:.8f}"
FormatFixed(v, places) ==
    CASE v.k = "nan"  -> <<"n", "a", "n">>
      [] v.k = "inf"  -> <<"i", "n", "f">>
      [] v.k = "ninf" -> <<"-", "i", "n", "f">>
      [] OTHER        -> RenderFixed(v.n < 0, Quantize(v, places), places)

\* a slip that would cut the groups of three from the left
RECURSIVE LeftChunks(_)
LeftChunks(digits) ==
    IF Len(digits) <= 3 THEN <<digits>>
    ELSE <<SubSeq(digits, 1, 3)>> \o LeftChunks(SubSeq(digits, 4, Len(digits)))

IntGroupsFromLeft(int_part, i) == LeftChunks(int_part)

\* the loop of lines 174-179: range(len(int_part)-3, -3, -3), each group
\* inserted at the front
RECURSIVE IntGroups(_, _)
IntGroups(int_part, i) ==
    IF i <= -3 THEN <<>>
    ELSE IntGroups(int_part, i - 3)
            \o <<IF i < 0 THEN Slice(int_part, 0, i + 3)
                 ELSE Slice(int_part, i, i + 3)>>

\* the loop of lines 185-187: range(0, len(remaining_dec), 3)
RECURSIVE DecGroups(_, _)
DecGroups(remaining_dec, i) ==
    IF i >= Len(remaining_dec) THEN <<>>
    ELSE <<Slice(remaining_dec, i, i + 3)>> \o DecGroups(remaining_dec, i + 3)

\* filter(None, groups)
NonEmpty(groups) == SelectSeq(groups, LAMBDA g : g # <<>>)

\* format_number from line 172 on, given str_value; the two-name unpacking of
\* split('.') raises ValueError unless there are exactly two parts
GroupRendered(str_value) ==
    LET parts == Split(str_value, ".")
    IN  IF Len(parts) # 2 THEN [raised |-> "ValueError", s |-> <<>>]
        ELSE LET int_part      == parts[1]
                 dec_part      == parts[2]
                 int_groups    == IntGroups(int_part, Len(int_part) - 3)
                 grouped_int   == Join(NonEmpty(int_groups), <<" ">>)
                 first_dec     == Slice(dec_part, 0, 2)
                 remaining_dec == Slice(dec_part, 2, Len(dec_part))
                 dec_groups    == DecGroups(remaining_dec, 0)
                 grouped_dec   == IF dec_groups # <<>>
                                  THEN first_dec \o <<" ">> \o Join(dec_groups, <<" ">>)
                                  ELSE first_dec
             IN  [raised |-> "", s |-> grouped_int \o <<".">> \o grouped_dec]

format_number(value) == GroupRendered(FormatFixed(value, 8))

\* f"{value:,.2f}"
Format2fComma(v) ==
    IF v.k # "num" THEN FormatFixed(v, 2)
    ELSE LET q      == Quantize(v, 2)
             digits == NatToDigits(q.ip)
         IN  (IF v.n < 0 THEN <<"-">> ELSE <<>>)
                 \o Join(IntGroups(digits, Len(digits) - 3), <<",">>)
                 \o <<".">> \o ZeroPad(NatToDigits(q.fp), 2)

-----------------------------------------------------------------------------
(* Validators *)

IsLeap(y) == (y % 4 = 0 /\ y % 100 # 0) \/ y % 400 = 0

DaysIn(y, m) ==
    IF m = 2 THEN (IF IsLeap(y) THEN 29 ELSE 28)
    ELSE IF m \in {4, 6, 9, 11} THEN 30 ELSE 31

\* _strptime's pattern for %m: 1[0-2]|0[1-9]|[1-9]
MatchesMonth(s) ==
    \/ Len(s) = 2 /\ s[1] = "1" /\ s[2] \in {"0", "1", "2"}
    \/ Len(s) = 2 /\ s[1] = "0" /\ s[2] \in DigitChars \ {"0"}
    \/ Len(s) = 1 /\ s[1] \in DigitChars \ {"0"}

\* _strptime's pattern for %d: 3[01]|[12]\d|0[1-9]|[1-9]| [1-9]
MatchesDay(s) ==
    \/ Len(s) = 2 /\ s[1] = "3" /\ s[2] \in {"0", "1"}
    \/ Len(s) = 2 /\ s[1] \in {"1", "2"} /\ s[2] \in DigitChars
    \/ Len(s) = 2 /\ s[1] = "0" /\ s[2] \in DigitChars \ {"0"}
    \/ Len(s) = 1 /\ s[1] \in DigitChars \ {"0"}
    \/ Len(s) = 2 /\ s[1] = " " /\ s[2] \in DigitChars \ {"0"}

DayVal(s) == IF s[1] = " " THEN DigitVal(s[2]) ELSE DigitsToNat(s)

NoDate == <<0, 0, 0>>

\* datetime.strptime(s, "%Y-%m-%d").date(): <<y, m, d>>, or NoDate for ValueError.
\* %Y is exactly four digits; the whole string must be consumed; the date must
\* exist in the calendar (year >= 1).
Strptime(s) ==
    LET seconds == {p \in {7, 8} : p < Len(s) /\ s[p] = "-"}
    IN  IF /\ Len(s) >= 8
           /\ AllDigits(SubSeq(s, 1, 4))
           /\ s[5] = "-"
           /\ \E p \in seconds :
                 /\ MatchesMonth(SubSeq(s, 6, p - 1))
                 /\ MatchesDay(SubSeq(s, p + 1, Len(s)))
        THEN LET p == CHOOSE q \in seconds :
                          /\ MatchesMonth(SubSeq(s, 6, q - 1))
                          /\ MatchesDay(SubSeq(s, q + 1, Len(s)))
                 y == DigitsToNat(SubSeq(s, 1, 4))
                 m == DigitsToNat(SubSeq(s, 6, p - 1))
                 d == DayVal(SubSeq(s, p + 1, Len(s)))
             IN  IF y >= 1 /\ d <= DaysIn(y, m) THEN <<y, m, d>> ELSE NoDate
        ELSE NoDate

DateLeq(a, b) ==
    \/ a[1] < b[1]
    \/ a[1] = b[1] /\ a[2] < b[2]
    \/ a[1] = b[1] /\ a[2] = b[2] /\ a[3] <= b[3]

EarliestDateStr == <<"2", "0", "1", "3", "-", "0", "1", "-", "0", "7">>

\* a slip that would forget the 2013-01-07 floor
validate_date_no_floor(date_str_in, today_in) ==
    /\ Strptime(date_str_in) # NoDate
    /\ DateLeq(Strptime(date_str_in), today_in)

validate_date(date_str_in, today_in) ==
    LET input_date    == Strptime(date_str_in)
        earliest_date == Strptime(EarliestDateStr)
    IN  /\ input_date # NoDate
        /\ DateLeq(earliest_date, input_date)
        /\ DateLeq(input_date, today_in)

validate_direction(direction_in) ==
    Lower(direction_in) \in {<<"t", "o">>, <<"f", "r", "o", "m">>}

validate_amount(amount_in) == IsFloat(FloatParse(amount_in))

validate_rate_type(x) == Lower(x) \in {<<"h">>, <<"c">>}

validate_currency(x) == Len(x) = 3

-----------------------------------------------------------------------------
(* The environment: what the user types and what the provider answers *)

PromptNames == {"rate_type", "date", "direction", "currency", "amount"}

\* The entries the user may be typing at each prompt.  A key is typed only
\* while the buffer stays a prefix of one of them; Enter and Backspace are
\* possible at any time, so every prefix is also submitted.
Entries(prompt) ==
    CASE prompt = "rate_type" -> {<<"h">>, <<"C">>, <<"h", "c">>}
      [] prompt = "date" ->
            {<<"2", "0", "1", "3", "-", "0", "1", "-", "0", "6">>,
             <<"2", "0", "1", "3", "-", "0", "1", "-", "0", "7">>,
             <<"2", "0", "1", "3", "-", "1", "-", "8">>,
             <<"2", "0", "1", "3", "-", "0", "2", "-", "3", "0">>,
             <<"2", "0", "2", "7", "-", "0", "1", "-", "0", "1">>}
      [] prompt = "direction" -> {<<"t", "o">>, <<"F", "r", "o", "m">>, <<"u", "p">>}
      [] prompt = "currency" -> {<<"U", "S", "D">>, <<"e", "u", "r">>}
      [] prompt = "amount" -> {<<"5">>, <<"n", "a", "n">>, <<"5", "x">>}

Prefixes(S) == UNION {{SubSeq(e, 1, k) : k \in 0..Len(e)} : e \in S}

TypedChars(prompt) ==
    UNION {{e[i] : i \in 1..Len(e)} : e \in Entries(prompt)}

\* a key outside allowed_chars, and a key that is not printable
StrayKey == "x"
ControlKey == "TAB"

IsPrintable(char) == char # ControlKey

\* allowed_chars of each get_input call; <<>> is None
AllowedChars(prompt) ==
    IF prompt = "rate_type" THEN <<"h", "c", "H", "C">> ELSE <<>>

InSeq(char, s) == \E i \in 1..Len(s) : s[i] = char

\* the validator of each get_input call
Validator(prompt, text) ==
    CASE prompt = "rate_type" -> validate_rate_type(text)
      [] prompt = "date"      -> validate_date(text, today)
      [] prompt = "direction" -> validate_direction(text)
      [] prompt = "currency"  -> validate_currency(text)
      [] prompt = "amount"    -> validate_amount(text)

Todays == {<<2013, 1, 7>>, <<2026, 11, 5>>}

BTC == <<"B", "T", "C">>
USD == <<"U", "S", "D">>

\* values the provider may quote for a symbol
RateTokens ==
    {<<"0", ".", "5">>, <<"0">>, <<"-", "2">>, <<"n", "a", "n">>,
     <<"i", "n", "f">>, <<"x">>}

NoRates == [key \in {} |-> <<>>]

RatesFor(cur) ==
    UNION {[keys -> RateTokens] : keys \in SUBSET {BTC, cur}}

Body(json, has_rates, rates_null, rates, has_date) ==
    [json |-> json, has_rates |-> has_rates, rates_null |-> rates_null,
     rates |-> rates, has_date |-> has_date]

GoodRates(cur) == [key \in {BTC, cur} |-> <<"0", ".", "5">>]

Bodies(cur) ==
    {Body("invalid", FALSE, FALSE, NoRates, FALSE),
     Body("scalar", FALSE, FALSE, NoRates, FALSE),
     Body("object", FALSE, FALSE, NoRates, FALSE),
     Body("object", TRUE, TRUE, NoRates, FALSE)}
        \cup {Body("object", TRUE, FALSE, rates, TRUE) : rates \in RatesFor(cur)}
        \cup {Body("object", TRUE, FALSE, GoodRates(cur), FALSE)}

Responses(cur) ==
    {[status |-> 200, body |-> b] : b \in Bodies(cur)}
        \cup {[status |-> 500, body |-> Body("invalid", FALSE, FALSE, NoRates, FALSE)],
              [status |-> 500, body |-> Body("object", TRUE, FALSE, GoodRates(cur), TRUE)]}

NoResponse == [status |-> 0, body |-> Body("invalid", FALSE, FALSE, NoRates, FALSE)]

ProviderDate == "2021-01-01"

-----------------------------------------------------------------------------
(* Values of the program *)

Zero == Num(0, 1)
One  == Num(1, 1)

None == [ok |-> FALSE, rate |-> Zero, btc_price |-> Zero, currency_rate |-> Zero,
         date |-> ""]

Quote(rate, btc_price, currency_rate, date) ==
    [ok |-> TRUE, rate |-> rate, btc_price |-> btc_price,
     currency_rate |-> currency_rate, date |-> date]

Line(kind, what, num, text) == [kind |-> kind, what |-> what, num |-> num, text |-> text]

ErrorLine(what)   == Line("error", what, Zero, <<>>)
VerboseLine(what) == Line("verbose", what, Zero, <<>>)

-----------------------------------------------------------------------------
(* get_exchange_rate, lines 81-167 *)

\* direction_map[direction.lower()], line 219
DirectionArg(direction_in) ==
    IF Lower(direction_in) = <<"t", "o">> THEN "to_btc" ELSE "from_btc"

\* a slip that would multiply where the code divides and divide where it multiplies
NormalizeSwapped(direction_arg, currency_arg, btc_rate, currency_rate) ==
    IF direction_arg = "to_btc"
    THEN IF currency_arg # USD THEN FDiv(btc_rate, currency_rate) ELSE btc_rate
    ELSE IF currency_arg # USD THEN FMul(btc_rate, currency_rate) ELSE btc_rate

\* lines 147-154: the conversion factor, or the exception the division raises
Normalize(direction_arg, currency_arg, btc_rate, currency_rate) ==
    IF direction_arg = "to_btc"
    THEN IF currency_arg # USD THEN FMul(btc_rate, currency_rate) ELSE btc_rate
    ELSE IF currency_arg # USD THEN FDiv(btc_rate, currency_rate) ELSE btc_rate

\* lines 122-125
VerboseLines(verbose_arg) ==
    IF verbose_arg
    THEN <<VerboseLine("status"), VerboseLine("headers"), VerboseLine("body")>>
    ELSE <<>>

\* lines 163-165: except Exception
Caught(lines) == [ret |-> None, out |-> Append(lines, ErrorLine("exception"))]

\* lines 131-165: the 200 branch of the try, with its except clause
ParseBody(lines, direction_arg, currency_arg, data) ==
    IF data.json = "invalid" THEN Caught(lines)           \* JSONDecodeError
    ELSE IF data.json = "scalar" THEN Caught(lines)       \* TypeError: not iterable
    ELSE IF ~data.has_rates
    THEN [ret |-> None, out |-> Append(lines, ErrorLine("format"))]
    ELSE IF data.rates_null THEN Caught(lines)            \* TypeError: not iterable
    ELSE IF BTC \notin DOMAIN data.rates \/ currency_arg \notin DOMAIN data.rates
    THEN [ret |-> None, out |-> Append(lines, ErrorLine("missing"))]
    ELSE LET btc_rate      == FloatParse(data.rates[BTC])
             currency_rate == FloatParse(data.rates[currency_arg])
             conversion_rate ==
                 Normalize(direction_arg, currency_arg, btc_rate, currency_rate)
         IN  IF IsRaised(btc_rate) \/ IsRaised(currency_rate)
                    \/ IsRaised(conversion_rate)
             THEN Caught(lines)
             ELSE [ret |-> Quote(conversion_rate, btc_rate, currency_rate,
                                 IF data.has_date THEN ProviderDate ELSE "current"),
                   out |-> lines]

\* a slip that would nest the status check inside `if verbose:`
TryBodyStatusUnderVerbose(verbose_arg, direction_arg, currency_arg, resp) ==
    IF verbose_arg /\ resp.status # 200
    THEN [ret |-> None, out |-> Append(VerboseLines(verbose_arg), ErrorLine("status"))]
    ELSE ParseBody(VerboseLines(verbose_arg), direction_arg, currency_arg, resp.body)

\* a slip that would drop the status check of lines 127-129
TryBodyNoStatusCheck(verbose_arg, direction_arg, currency_arg, resp) ==
    ParseBody(VerboseLines(verbose_arg), direction_arg, currency_arg, resp.body)

\* lines 122-165: the body of the try once the response has been read, with its
\* except clause: the value to return and the lines printed
TryBody(verbose_arg, direction_arg, currency_arg, resp) ==
    IF resp.status # 200
    THEN [ret |-> None, out |-> Append(VerboseLines(verbose_arg), ErrorLine("status"))]
    ELSE ParseBody(VerboseLines(verbose_arg), direction_arg, currency_arg, resp.body)

InCall == pc \in {"call_current", "call_requested"}

\* the date_str argument of the call in progress: None (<<>>) at line 224
DateArg == IF pc = "call_current" THEN <<>> ELSE date_str

\* lines 111-115
Endpoint(date_arg) == IF date_arg # <<>> THEN "historical" ELSE "latest"

\* main after a call returns: lines 224 and 227 assign the value
Return(value) ==
    /\ gpc' = "idle"
    /\ IF pc = "call_current"
       THEN /\ current_rate' = value
            /\ pc' = "call_requested"
            /\ UNCHANGED result
       ELSE /\ result' = value
            /\ pc' = "print"
            /\ UNCHANGED current_rate

\* lines 95-115; without a key the call prints and returns None (lines 98-100)
GER_Enter ==
    /\ InCall /\ gpc = "idle"
    /\ IF api_key = ""
       THEN /\ out' = Append(out, ErrorLine("nokey"))
            /\ Return(None)
            /\ UNCHANGED conns
       ELSE /\ conns' = Append(conns, "created")
            /\ gpc' = "try"
            /\ UNCHANGED <<out, pc, current_rate, result>>
    /\ ret' = None
    /\ UNCHANGED <<verbose, api_key, today, buffer, rate_type, date_str, direction,
                   currency, amount, requests, response, fmt_value, fmt_str,
                   fmt_done>>

SetLast(s, v) == [s EXCEPT ![Len(s)] = v]

\* a slip that would try again after a failed request
GER_RequestRetries ==
    /\ InCall /\ gpc = "try"
    /\ requests' = Append(requests, Endpoint(DateArg))
    /\ conns' = SetLast(conns, "open")
    /\ response' = NoResponse
    /\ out' = Append(out, ErrorLine("exception"))
    /\ ret' = None
    /\ gpc' = IF Len(requests) < 3 THEN "try" ELSE "finally"
    /\ UNCHANGED <<verbose, api_key, today, pc, buffer, rate_type, date_str,
                   direction, currency, amount, current_rate, result, fmt_value,
                   fmt_str, fmt_done>>

\* lines 118-120 raising (no route, reset, timeout...): the socket may or may
\* not have been opened; the except clause prints and the call heads for finally
GER_RequestFails ==
    /\ InCall /\ gpc = "try"
    /\ requests' = Append(requests, Endpoint(DateArg))
    /\ \E opened \in BOOLEAN :
          conns' = IF opened THEN SetLast(conns, "open") ELSE conns
    /\ response' = NoResponse
    /\ out' = Append(out, ErrorLine("exception"))
    /\ ret' = None
    /\ gpc' = "finally"
    /\ UNCHANGED <<verbose, api_key, today, pc, buffer, rate_type, date_str,
                   direction, currency, amount, current_rate, result, fmt_value,
                   fmt_str, fmt_done>>

\* lines 118-120 returning a response
GER_RequestOk ==
    /\ InCall /\ gpc = "try"
    /\ requests' = Append(requests, Endpoint(DateArg))
    /\ conns' = SetLast(conns, "open")
    /\ \E r \in Responses(currency) : response' = r
    /\ gpc' = "got"
    /\ UNCHANGED <<verbose, api_key, today, pc, buffer, rate_type, date_str,
                   direction, currency, amount, current_rate, result, ret, out,
                   fmt_value, fmt_str, fmt_done>>

\* lines 122-165
GER_Process ==
    /\ InCall /\ gpc = "got"
    /\ LET o == TryBody(verbose, DirectionArg(direction), currency, response)
       IN  /\ ret' = o.ret
           /\ out' = out \o o.out
    /\ gpc' = "finally"
    /\ UNCHANGED <<verbose, api_key, today, pc, buffer, rate_type, date_str,
                   direction, currency, amount, current_rate, result, conns,
                   requests, response, fmt_value, fmt_str, fmt_done>>

\* line 167: conn.close()
CloseConn(cs) == SetLast(cs, "closed")

\* a slip that would close the connection on the success path only
GER_CloseOnSuccessOnly ==
    /\ InCall /\ gpc = "finally"
    /\ conns' = IF ret.ok THEN CloseConn(conns) ELSE conns
    /\ Return(ret)
    /\ UNCHANGED <<verbose, api_key, today, buffer, rate_type, date_str, direction,
                   currency, amount, requests, response, ret, out, fmt_value,
                   fmt_str, fmt_done>>

\* lines 166-167, then the return
GER_Finally ==
    /\ InCall /\ gpc = "finally"
    /\ conns' = CloseConn(conns)
    /\ Return(ret)
    /\ UNCHANGED <<verbose, api_key, today, buffer, rate_type, date_str, direction,
                   currency, amount, requests, response, ret, out, fmt_value,
                   fmt_str, fmt_done>>

-----------------------------------------------------------------------------
(* get_input, lines 12-58: one action per branch of the loop body *)

AtPrompt == pc \in PromptNames

FetchVars == <<current_rate, result, gpc, conns, requests, response, ret, out>>
FmtVars   == <<fmt_value, fmt_str, fmt_done>>
Locals    == <<rate_type, date_str, direction, currency, amount>>

\* lines 31-33: Enter on an empty buffer
KeyEnterEmpty ==
    /\ AtPrompt /\ buffer = <<>>
    /\ UNCHANGED vars

\* lines 35-39: the validator rejects the entry
KeyEnterRejected ==
    /\ AtPrompt /\ buffer # <<>>
    /\ ~Validator(pc, buffer)
    /\ buffer' = <<>>
    /\ UNCHANGED <<verbose, api_key, today, pc, Locals, FetchVars, FmtVars>>

\* lines 40-41, and main's use of the returned string (lines 199-217)
KeyEnterAccepted ==
    /\ AtPrompt /\ buffer # <<>>
    /\ Validator(pc, buffer)
    /\ buffer' = <<>>
    /\ CASE pc = "rate_type" ->
              /\ rate_type' = Lower(buffer)
              /\ pc' = IF Lower(buffer) = <<"h">> THEN "date" ELSE "direction"
              /\ UNCHANGED <<date_str, direction, currency, amount, out>>
         [] pc = "date" ->
              /\ date_str' = buffer
              /\ pc' = "direction"
              /\ UNCHANGED <<rate_type, direction, currency, amount, out>>
         [] pc = "direction" ->
              /\ direction' = buffer
              /\ pc' = "currency"
              /\ UNCHANGED <<rate_type, date_str, currency, amount, out>>
         [] pc = "currency" ->
              /\ currency' = Upper(buffer)
              /\ pc' = "amount"
              /\ UNCHANGED <<rate_type, date_str, direction, amount, out>>
         [] pc = "amount" ->
              LET parsed == FloatParse(buffer)
              IN  IF IsRaised(parsed)
                  THEN /\ out' = Append(out, ErrorLine("amount"))
                       /\ pc' = "done"
                       /\ UNCHANGED <<rate_type, date_str, direction, currency, amount>>
                  ELSE /\ amount' = parsed
                       /\ pc' = IF rate_type = <<"h">> THEN "call_current"
                                ELSE "call_requested"
                       /\ UNCHANGED <<rate_type, date_str, direction, currency, out>>
    /\ UNCHANGED <<verbose, api_key, today, current_rate, result, gpc, conns,
                   requests, response, ret, FmtVars>>

\* lines 44-49
KeyBackspace ==
    /\ AtPrompt
    /\ buffer' = IF buffer # <<>> THEN SubSeq(buffer, 1, Len(buffer) - 1) ELSE buffer
    /\ UNCHANGED <<verbose, api_key, today, pc, Locals, FetchVars, FmtVars>>

\* lines 52-58: a regular key
KeyChar ==
    /\ AtPrompt
    /\ \E char \in TypedChars(pc) \cup {StrayKey, ControlKey} :
          /\ buffer' =
                IF AllowedChars(pc) # <<>> /\ ~InSeq(char, AllowedChars(pc))
                THEN buffer
                ELSE IF IsPrintable(char) THEN Append(buffer, char) ELSE buffer
          /\ buffer' \in Prefixes(Entries(pc))
    /\ UNCHANGED <<verbose, api_key, today, pc, Locals, FetchVars, FmtVars>>

-----------------------------------------------------------------------------
(* main's result block, lines 229-240 *)

\* what the block prints and whether an exception left it
ResultBlock(direction_in, amount_in, res) ==
    IF ~res.ok THEN [lines |-> <<>>, raised |-> ""]
    ELSE LET rate            == res.rate
             converted_value == FMul(amount_in, rate)
             shown           == IF Lower(direction_in) = <<"t", "o">>
                                THEN format_number(converted_value)
                                ELSE format_number(amount_in)
             conversion      ==
                 IF Lower(direction_in) = <<"t", "o">>
                 THEN Line("conversion", "to", amount_in, shown.s)
                 ELSE Line("conversion", "from", amount_in,
                           shown.s \o <<"=">> \o Format2fComma(converted_value))
             usd             == FDiv(One, res.btc_price)
         IN  IF shown.raised # "" THEN [lines |-> <<>>, raised |-> shown.raised]
             ELSE IF IsRaised(usd) THEN [lines |-> <<conversion>>, raised |-> usd.k]
             ELSE [lines |-> <<conversion,
                               Line("summary", res.date, Zero, Format2fComma(usd))>>,
                   raised |-> ""]

MainPrint ==
    /\ pc = "print"
    /\ LET b == ResultBlock(direction, amount, result)
       IN  /\ out' = out \o b.lines
           /\ pc' = IF b.raised = "" THEN "done" ELSE "crashed"
    /\ UNCHANGED <<verbose, api_key, today, buffer, Locals, current_rate, result,
                   gpc, conns, requests, response, ret, FmtVars>>

-----------------------------------------------------------------------------
(* format_number on its own *)

MaxIntDigits == 8

\* the first `len` digits of 1234567890
RECURSIVE Counting(_)
Counting(len) == IF len = 0 THEN 0 ELSE Counting(len - 1) * 10 + (len % 10)

IntParts ==
    {0} \cup UNION {{Pow10(len - 1), Pow10(len) - 1, Counting(len)} :
                       len \in 1..MaxIntDigits}

FracParts == {0, 1, 5, 10000000, 50000000, 78901230, 99999999}

NoFmt == [ip |-> 0, fp |-> 0]

FormatCall ==
    /\ pc = "format" /\ ~fmt_done
    /\ fmt_str' = GroupRendered(RenderFixed(FALSE, fmt_value, 8)).s
    /\ fmt_done' = TRUE
    /\ UNCHANGED <<verbose, api_key, today, pc, buffer, Locals, FetchVars, fmt_value>>

-----------------------------------------------------------------------------
(* Specifications *)

InitCommon ==
    /\ buffer = <<>>
    /\ rate_type = <<>> /\ date_str = <<>> /\ direction = <<>> /\ currency = <<>>
    /\ amount = Zero
    /\ current_rate = None /\ result = None
    /\ gpc = "idle" /\ conns = <<>> /\ requests = <<>>
    /\ response = NoResponse /\ ret = None /\ out = <<>>
    /\ fmt_str = <<>> /\ fmt_done = FALSE

Init ==
    /\ verbose \in BOOLEAN
    /\ api_key \in {"", "key"}
    /\ today \in Todays
    /\ pc = "rate_type"
    /\ fmt_value = NoFmt
    /\ InitCommon

Next ==
    \/ KeyEnterEmpty
    \/ KeyEnterRejected
    \/ KeyEnterAccepted
    \/ KeyBackspace
    \/ KeyChar
    \/ GER_Enter
    \/ GER_RequestFails
    \/ GER_RequestOk
    \/ GER_Process
    \/ GER_Finally
    \/ MainPrint

Spec == Init /\ [][Next]_vars

InitFmt ==
    /\ verbose = FALSE /\ api_key = "" /\ today \in Todays
    /\ pc = "format"
    /\ fmt_value \in [ip : IntParts, fp : FracParts]
    /\ InitCommon

NextFmt == FormatCall

SpecFmt == InitFmt /\ [][NextFmt]_vars

-----------------------------------------------------------------------------
(* Properties *)

HasLine(kind) == \E i \in 1..Len(out) : out[i].kind = kind

AfterFetch == pc \in {"print", "done", "crashed"}
Finished   == pc \in {"done", "crashed"}

Quarter == Num(1, 4)

\* the response in hand carries both quotes in a 200 `rates` object
QuotesPresent ==
    /\ response.status = 200 /\ response.body.json = "object"
    /\ response.body.has_rates /\ ~response.body.rates_null
    /\ BTC \in DOMAIN response.body.rates
    /\ currency \in DOMAIN response.body.rates

\* C1: a successful call returns the quotes unmodified and the factor
\* btc_rate for USD, btc_rate * currency_rate (to_btc) or
\* btc_rate / currency_rate (from_btc) otherwise.
C1_RateFormula ==
    (gpc = "finally" /\ ret.ok) =>
        LET btc == FloatParse(response.body.rates[BTC])
            cur == FloatParse(response.body.rates[currency])
            to  == DirectionArg(direction) = "to_btc"
        IN  /\ QuotesPresent
            /\ ret.btc_price = btc
            /\ ret.currency_rate = cur
            /\ currency = USD => ret.rate = btc
            /\ (currency # USD /\ to) => ret.rate = FMul(btc, cur)
            /\ (currency # USD /\ ~to) => ret.rate = FDiv(btc, cur)
            /\ (currency # USD /\ to /\ response.body.rates = GoodRates(currency))
                  => ret.rate = Quarter
            /\ (currency # USD /\ ~to /\ response.body.rates = GoodRates(currency))
                  => ret.rate = One

C1_Witness ==
    /\ gpc = "finally" /\ ret.ok
    /\ currency # USD /\ DirectionArg(direction) = "from_btc"
    /\ response.body.rates = GoodRates(currency)
    /\ ret.rate = One /\ ret.btc_price = Num(1, 2)

Spaces(s) == {i \in 1..Len(s) : s[i] = " "}

\* C2: format_number of a value rendered I.D gives I in groups of three from
\* the right, then ".", then D as 2 + 3 + 3 digits, single spaces between
\* groups and none at either end.
C2_Grouping ==
    fmt_done =>
        LET I      == NatToDigits(fmt_value.ip)
            D      == ZeroPad(NatToDigits(fmt_value.fp), 8)
            parts  == Split(fmt_str, ".")
            groups == Split(parts[1], " ")
        IN  /\ Len(parts) = 2
            /\ parts[2] = SubSeq(D, 1, 2) \o <<" ">> \o SubSeq(D, 3, 5)
                             \o <<" ">> \o SubSeq(D, 6, 8)
            /\ Join(groups, <<>>) = I
            /\ \A g \in 1..Len(groups) :
                  /\ AllDigits(groups[g])
                  /\ Len(groups[g]) \in 1..3
                  /\ g > 1 => Len(groups[g]) = 3
            /\ fmt_str[1] # " " /\ fmt_str[Len(fmt_str)] # " "
            /\ (fmt_value = [ip |-> 123456, fp |-> 78901230]) =>
                  fmt_str = <<"1", "2", "3", " ", "4", "5", "6", ".", "7", "8", " ",
                              "9", "0", "1", " ", "2", "3", "0">>
            /\ (fmt_value = [ip |-> 0, fp |-> 50000000]) =>
                  fmt_str = <<"0", ".", "5", "0", " ", "0", "0", "0", " ", "0", "0", "0">>

C2_Witness ==
    /\ fmt_done
    /\ fmt_value = [ip |-> 1234567, fp |-> 78901230]
    /\ Cardinality(Spaces(fmt_str)) = 4

\* the response in hand is one of the failures C3 names
FailedResponse ==
    \/ response.status \notin {0, 200}
    \/ /\ response.status = 200
       /\ \/ response.body.json # "object"
          \/ ~response.body.has_rates
          \/ /\ ~response.body.rates_null
             /\ \/ BTC \notin DOMAIN response.body.rates
                \/ currency \notin DOMAIN response.body.rates

\* C3: on a non-200 status, a body without `rates`, or rates lacking BTC or the
\* currency, get_exchange_rate prints an error and returns None; when the fetch
\* is the primary one main prints neither a conversion nor a summary line, and
\* nothing raises.
C3_FailedFetchReported ==
    /\ (gpc = "finally" /\ FailedResponse) =>
          /\ ret = None
          /\ out # <<>> /\ out[Len(out)].kind = "error"
    /\ (AfterFetch /\ FailedResponse) =>
          /\ result = None
          /\ pc # "crashed"
          /\ ~HasLine("conversion") /\ ~HasLine("summary")
          /\ HasLine("error")

C3_Witness ==
    /\ pc = "done" /\ rate_type = <<"h">> /\ current_rate.ok
    /\ response.status = 500 /\ response.body.rates = GoodRates(currency)
    /\ ~HasLine("conversion")

PositiveFinite(x) == x.k = "num" /\ x.n > 0

InvalidQuotes ==
    /\ QuotesPresent
    /\ \/ ~PositiveFinite(FloatParse(response.body.rates[BTC]))
       \/ ~PositiveFinite(FloatParse(response.body.rates[currency]))

\* C4: a 200 response whose BTC or currency rate is not a positive finite
\* number makes get_exchange_rate fail, and main prints no converted amount.
C4_InvalidQuotesRejected ==
    /\ (gpc = "finally" /\ InvalidQuotes) => ~ret.ok
    /\ (AfterFetch /\ InvalidQuotes) => (~result.ok /\ ~HasLine("conversion"))

\* C5: every run ends with the success message or with a failure diagnostic
\* printed, never with an exception leaving main.
C5_NoUnhandledFault ==
    /\ pc # "crashed"
    /\ pc = "done" =>
          \/ HasLine("conversion") /\ HasLine("summary")
          \/ HasLine("error")

\* C6: in historical mode, with the current-rate fetch failed and the
\* historical one successful, main prints the conversion and the summary line
\* of the historical quote.
C6_HistoricalCompletes ==
    (Finished /\ rate_type = <<"h">> /\ ~current_rate.ok /\ result.ok) =>
        /\ pc = "done"
        /\ HasLine("conversion") /\ HasLine("summary")

Floor == <<2013, 1, 7>>

C8_Requests ==
    /\ api_key = "" => requests = <<>>
    /\ (api_key # "" /\ AfterFetch) =>
          requests = IF rate_type = <<"h">> THEN <<"latest", "historical">>
                     ELSE <<"latest">>
    /\ (api_key # "" /\ InCall) =>
          Len(requests) = (IF pc = "call_requested" /\ rate_type = <<"h">> THEN 1 ELSE 0)
                             + (IF gpc \in {"got", "finally"} THEN 1 ELSE 0)
    /\ \A i \in 1..(Len(conns) - 1) : conns[i] = "closed"

C8_Witness ==
    /\ pc = "done" /\ requests = <<"latest", "historical">>
    /\ ~current_rate.ok /\ result.ok

OpenConns == {i \in 1..Len(conns) : conns[i] = "open"}

\* C9: at most one connection is open at any time, and none is left open or
\* unclosed once get_exchange_rate has returned, whatever the path.
C9_ConnectionsClosed ==
    /\ Cardinality(OpenConns) <= 1
    /\ gpc = "idle" => \A i \in 1..Len(conns) : conns[i] = "closed"
    /\ Finished => OpenConns = {}

HasError(what) == \E i \in 1..Len(out) : out[i].kind = "error" /\ out[i].what = what

C9_Witness ==
    /\ Finished /\ Len(conns) = 2
    /\ \A i \in 1..Len(conns) : conns[i] = "closed"
    /\ HasError("exception") /\ HasError("status")

NotVerbose(line) == line.kind # "verbose"

\* C10: for the response in hand, the verbose and the quiet run of the try body
\* return the same value and print the same lines apart from the three
\* diagnostic lines, and the run in progress returns that value.
C10_VerboseNeutral ==
    (response # NoResponse /\ direction # <<>>) =>
        LET loud  == TryBody(TRUE, DirectionArg(direction), currency, response)
            quiet == TryBody(FALSE, DirectionArg(direction), currency, response)
        IN  /\ loud.ret = quiet.ret
            /\ SelectSeq(loud.out, NotVerbose) = quiet.out
            /\ loud.out = VerboseLines(TRUE) \o quiet.out
            /\ gpc = "finally" => ret = quiet.ret
            /\ (AfterFetch /\ ~verbose) => ~HasLine("verbose")

C10_Witness ==
    /\ gpc = "finally" /\ verbose /\ ret.ok
    /\ HasLine("verbose")
    /\ response.body.rates = GoodRates(currency)

====
